---- MODULE Spec2Model ----
(***************************************************************************)
(* CHIP-8 core of opt8-rs: the instruction decoder (parse_instruction),    *)
(* the IL execution engine (IntermediateInst::execute), the fetch-execute  *)
(* driver (run_instruction) and the concrete machine state they act on     *)
(* (ConcreteMachine's Chip8State implementation).                          *)
(***************************************************************************)
EXTENDS Integers, Sequences, FiniteSets, TLC

VARIABLES
    mem,             \* ConcreteMachine.mem, the non-zero bytes only (a missing address holds 0)
    reg,             \* ConcreteMachine.reg, 16 bytes
    i,               \* ConcreteMachine.i
    pc,              \* ConcreteMachine.pc
    stack,           \* ConcreteMachine.stack, the call stack
    screen_buf,      \* ConcreteMachine.screen_buf, the pixels that differ from PixelOff
    screen_clean,    \* ConcreteMachine.screen_clean
    screen_dirty,    \* ConcreteMachine.screen_dirty
    overflow_checks, \* the build profile: TRUE when integer overflow panics (debug)
    status,          \* "running", or the reason the process stopped
    v,               \* run_instruction's operand stack as the last cycle left it
    wr,              \* memory addresses the last cycle wrote
    last,            \* the last cycle: its opcode and the machine state it started from
    last2,           \* the cycle before the last one
    saved,           \* the latest Fx55: its x, base address, registers and the writes since
    cleared          \* TRUE from a completed 00E0 until the next draw has run

vars == <<mem, reg, i, pc, stack, screen_buf, screen_clean, screen_dirty,
          overflow_checks, status, v, wr, last, last2, saved, cleared>>

\* ------------------------------------------------------------------ bounds

\* Radius of the neighbourhoods of the byte values the test ROMs load.
EdgeRadius == 1
\* Largest register index used by the batch store/load ROMs.
MaxStoreReg == 2
\* Largest sprite height (other than the 16 rows of n = 0) drawn by the draw ROMs.
MaxRows == 2

\* ------------------------------------------------------------------ constants

MemSize == 4096
RomBase == 512
\* Pixels are u32 with the top byte always 0xFF (0xFF000000 at construction, and the
\* XOR mask 0x00FFFFFF never touches it): a pixel is modelled by its low 24 bits.
PixelOff == 0
PixelOn == 16777215
PixelMask == 16777215
GlyphSize == 5
MaxRomLen == 3583

SYSTEM_FONT ==
    << 240, 144, 144, 144, 240,
       32, 96, 32, 32, 112,
       240, 16, 240, 128, 240,
       240, 16, 240, 16, 240,
       144, 144, 240, 16, 16,
       240, 128, 240, 16, 240,
       240, 128, 240, 144, 240,
       240, 16, 32, 64, 64,
       240, 144, 240, 144, 240,
       240, 144, 240, 16, 240,
       240, 144, 240, 144, 144,
       224, 144, 224, 144, 224,
       240, 128, 128, 128, 240,
       224, 144, 144, 144, 224,
       240, 128, 240, 128, 240,
       240, 128, 240, 128, 128 >>

\* ------------------------------------------------------------------ bytes and bits

Bit(x, k) == (x \div (2 ^ k)) % 2

FromBits8(f) ==
    f[0] + 2 * f[1] + 4 * f[2] + 8 * f[3] + 16 * f[4] + 32 * f[5] + 64 * f[6] + 128 * f[7]

BitOr8(a, b) == FromBits8([k \in 0..7 |-> IF Bit(a, k) + Bit(b, k) > 0 THEN 1 ELSE 0])
BitAnd8(a, b) == FromBits8([k \in 0..7 |-> Bit(a, k) * Bit(b, k)])
BitXor8(a, b) == FromBits8([k \in 0..7 |-> (Bit(a, k) + Bit(b, k)) % 2])

\* fault model: the carry is reported only above 256
OverflowingAddOffByOne(a, b) == [sum |-> (a + b) % 256, ov |-> a + b > 256]
\* u8::overflowing_add
OverflowingAdd(a, b) == [sum |-> (a + b) % 256, ov |-> a + b >= 256]

\* u8::wrapping_neg
WrappingNeg(a) == (256 - a) % 256

\* ------------------------------------------------------------------ IL operations

Generic(n) == [r |-> "Generic", n |-> n]
DelayTimer == [r |-> "DelayTimer", n |-> 0]
SoundTimer == [r |-> "SoundTimer", n |-> 0]

IL(name) == [op |-> name, r |-> "", n |-> 0]
RegRead(x) == [op |-> "RegRead", r |-> x.r, n |-> x.n]
RegWrite(x) == [op |-> "RegWrite", r |-> x.r, n |-> x.n]
PushImm(b) == [op |-> "PushImm", r |-> "", n |-> b]
PushImm16(a) == [op |-> "PushImm16", r |-> "", n |-> a]

\* IntermediateValue
Bool(b) == [tag |-> "Bool", val |-> IF b THEN 1 ELSE 0]
Addr(a) == [tag |-> "Addr", val |-> a]
Byte(b) == [tag |-> "Byte", val |-> b]

\* ------------------------------------------------------------------ decoder

None == [kind |-> "None", prog |-> <<>>]
Some(p) == [kind |-> "Some", prog |-> p]
\* a failed assert! inside parse_instruction
DecodePanic == [kind |-> "Panic", prog |-> <<>>]

\* Vec::swap_remove(0)
SwapRemove0(s) == IF Len(s) = 1 THEN <<>> ELSE <<s[Len(s)]>> \o SubSeq(s, 2, Len(s) - 1)

\* fault model: 00E0 and 00EE matched on the low byte alone
Parse0LowByte(inst) ==
    IF inst % 256 = 224 THEN Some(<<IL("ClearScreen")>>)
    ELSE IF inst % 256 = 238 THEN Some(<<IL("Ret")>>)
    ELSE None
\* n1 = 0
Parse0(inst) ==
    IF inst = 224 THEN Some(<<IL("ClearScreen")>>)
    ELSE IF inst = 238 THEN Some(<<IL("Ret")>>)
    ELSE None

\* n1 = 8
Parse8(n2, n3, n4) ==
    LET v0 == <<RegRead(Generic(n2)), RegRead(Generic(n3))>>
        fin(p) == Some(p \o <<RegWrite(Generic(n2))>>)
        flag(p) == IF n2 = 15 THEN DecodePanic
                   ELSE fin(p \o <<RegWrite(Generic(15))>>)
    IN  CASE n4 = 0 -> fin(SwapRemove0(v0))
          [] n4 = 1 -> fin(v0 \o <<IL("BOr")>>)
          [] n4 = 2 -> fin(v0 \o <<IL("BAnd")>>)
          [] n4 = 3 -> fin(v0 \o <<IL("BXor")>>)
          [] n4 = 4 -> flag(v0 \o <<IL("AddOv")>>)
          [] n4 = 5 -> flag(v0 \o <<IL("Neg"), IL("AddOv")>>)
          [] n4 = 6 -> flag(SwapRemove0(v0) \o <<IL("BShrOv")>>)
          [] n4 = 7 -> flag(<<v0[2], v0[1]>> \o <<IL("Neg"), IL("AddOv")>>)
          [] n4 = 14 -> flag(SwapRemove0(v0) \o <<IL("BShlOv")>>)
          [] OTHER -> None

\* n1 = D: one row of the sprite
DrawRow(n2, n3, k) ==
    <<RegRead(Generic(n2)), RegRead(Generic(n3))>>
    \o (IF k # 0 THEN <<PushImm(k), IL("Add")>> ELSE <<>>)
    \o <<IL("GetI")>>
    \o (IF k # 0 THEN <<PushImm(k), IL("AddOffset")>> ELSE <<>>)
    \o <<IL("MemRead"), IL("WriteScreen"), IL("BoolOr")>>

RECURSIVE DrawRows(_, _, _, _)
DrawRows(n2, n3, k, rows) ==
    IF k >= rows THEN <<>> ELSE DrawRow(n2, n3, k) \o DrawRows(n2, n3, k + 1, rows)

\* fault model: the final Select is missing
ParseDNoSelect(n2, n3, n4) ==
    IF ~(n2 # 15 /\ n3 # 15) THEN DecodePanic
    ELSE Some(<<PushImm(1), PushImm(0), IL("False")>>
              \o DrawRows(n2, n3, 0, IF n4 = 0 THEN 16 ELSE n4)
              \o <<RegWrite(Generic(15))>>)
\* n1 = D
ParseD(n2, n3, n4) ==
    IF ~(n2 # 15 /\ n3 # 15) THEN DecodePanic
    ELSE Some(<<PushImm(1), PushImm(0), IL("False")>>
              \o DrawRows(n2, n3, 0, IF n4 = 0 THEN 16 ELSE n4)
              \o <<IL("Select"), RegWrite(Generic(15))>>)

\* n1 = E
ParseE(n2, n3, n4) ==
    IF n3 = 9 /\ n4 = 14
        THEN Some(<<RegRead(Generic(n2)), IL("KeyPressed"), IL("CondSkipPC")>>)
    ELSE IF n3 = 10 /\ n4 = 1
        THEN Some(<<RegRead(Generic(n2)), IL("KeyPressed"), IL("BoolNot"), IL("CondSkipPC")>>)
    ELSE None

\* Fx33
ParseBcd(x) ==
    <<RegRead(x),
      IL("DivMod10"), IL("GetI"), PushImm(2), IL("AddOffset"), IL("Swap2"), IL("MemWrite"),
      IL("DivMod10"), IL("GetI"), PushImm(1), IL("AddOffset"), IL("Swap2"), IL("MemWrite"),
      IL("GetI"), IL("Swap2"), IL("MemWrite")>>

\* fault model: every iteration stores register n2
RECURSIVE ParseStoreSame(_, _)
ParseStoreSame(k, n2) ==
    IF k > n2 THEN <<>>
    ELSE <<IL("GetI"), RegRead(Generic(n2)), IL("MemWrite"),
           IL("GetI"), PushImm(1), IL("AddOffset"), IL("SetI")>> \o ParseStoreSame(k + 1, n2)
\* Fx55: registers 0..n2 to memory
RECURSIVE ParseStore(_, _)
ParseStore(k, n2) ==
    IF k > n2 THEN <<>>
    ELSE <<IL("GetI"), RegRead(Generic(k)), IL("MemWrite"),
           IL("GetI"), PushImm(1), IL("AddOffset"), IL("SetI")>> \o ParseStore(k + 1, n2)

\* fault model: the index register is not advanced past the last register
RECURSIVE ParseLoadNoLastStep(_, _)
ParseLoadNoLastStep(k, n2) ==
    IF k > n2 THEN <<>>
    ELSE <<IL("GetI"), IL("MemRead"), RegWrite(Generic(k))>>
         \o (IF k < n2 THEN <<IL("GetI"), PushImm(1), IL("AddOffset"), IL("SetI")>> ELSE <<>>)
         \o ParseLoadNoLastStep(k + 1, n2)
\* Fx65: memory to registers 0..n2
RECURSIVE ParseLoad(_, _)
ParseLoad(k, n2) ==
    IF k > n2 THEN <<>>
    ELSE <<IL("GetI"), IL("MemRead"), RegWrite(Generic(k)),
           IL("GetI"), PushImm(1), IL("AddOffset"), IL("SetI")>> \o ParseLoad(k + 1, n2)

\* n1 = F
ParseF(inst, n2) ==
    LET x == Generic(n2)
        lo == inst % 256
    IN  CASE lo = 7 -> Some(<<RegRead(DelayTimer), RegWrite(x)>>)
          [] lo = 10 -> Some(<<IL("WaitForKeypress"), RegWrite(x)>>)
          [] lo = 21 -> Some(<<RegRead(x), RegWrite(DelayTimer)>>)
          [] lo = 24 -> Some(<<RegRead(x), RegWrite(SoundTimer)>>)
          [] lo = 30 -> Some(<<IL("GetI"), RegRead(x), IL("AddOffset"), IL("SetI")>>)
          [] lo = 41 -> Some(<<RegRead(x), IL("HexCharAddr"), IL("SetI")>>)
          [] lo = 51 -> Some(ParseBcd(x))
          [] lo = 85 -> Some(ParseStore(0, n2))
          [] lo = 101 -> Some(ParseLoad(0, n2))
          [] OTHER -> None

parse_instruction(inst) ==
    LET n1 == (inst \div 4096) % 16
        n2 == (inst \div 256) % 16
        n3 == (inst \div 16) % 16
        n4 == inst % 16
        kk == inst % 256
        nnn == inst % 4096
        rx == RegRead(Generic(n2))
        ry == RegRead(Generic(n3))
    IN  CASE n1 = 0 -> Parse0(inst)
          [] n1 = 1 -> Some(<<PushImm16(nnn), IL("SetPC")>>)
          [] n1 = 2 -> Some(<<PushImm16(nnn), IL("Call")>>)
          [] n1 = 3 -> Some(<<rx, PushImm(kk), IL("Equal"), IL("CondSkipPC")>>)
          [] n1 = 4 -> Some(<<rx, PushImm(kk), IL("Equal"), IL("BoolNot"), IL("CondSkipPC")>>)
          [] n1 = 5 /\ n4 = 0 -> Some(<<rx, ry, IL("Equal"), IL("CondSkipPC")>>)
          [] n1 = 6 -> Some(<<PushImm(kk), RegWrite(Generic(n2))>>)
          [] n1 = 7 -> Some(<<rx, PushImm(kk), IL("Add"), RegWrite(Generic(n2))>>)
          [] n1 = 8 -> Parse8(n2, n3, n4)
          [] n1 = 9 /\ n4 = 0 -> Some(<<rx, ry, IL("Equal"), IL("BoolNot"), IL("CondSkipPC")>>)
          [] n1 = 10 -> Some(<<PushImm16(nnn), IL("SetI")>>)
          [] n1 = 11 -> Some(<<PushImm16(nnn), IL("OffsetPC")>>)
          [] n1 = 12 -> Some(<<IL("Rand"), PushImm(kk), IL("BAnd"), RegWrite(Generic(n2))>>)
          [] n1 = 13 -> ParseD(n2, n3, n4)
          [] n1 = 14 -> ParseE(n2, n3, n4)
          [] n1 = 15 -> ParseF(inst, n2)
          [] OTHER -> None

\* ------------------------------------------------------------------ ConcreteMachine

\* read_mem: self.mem[(addr & 0xFFF) as usize]
read_mem(m, addr) == IF addr % MemSize \in DOMAIN m THEN m[addr % MemSize] ELSE 0

\* write_mem: self.mem[(addr & 0xFFF) as usize] = val
write_mem(m, addr, val) ==
    LET a == addr % MemSize
    IN  [x \in (DOMAIN m \cup {a}) \ (IF val = 0 THEN {a} ELSE {}) |->
            IF x = a THEN val ELSE m[x]]

\* screen_buf[idx]
read_px(buf, idx) == IF idx \in DOMAIN buf THEN buf[idx] ELSE PixelOff

\* screen_buf[idx] = val
write_px(buf, idx, val) ==
    [x \in (DOMAIN buf \cup {idx}) \ (IF val = PixelOff THEN {idx} ELSE {}) |->
        IF x = idx THEN val ELSE buf[x]]

\* fault model: the pixel is set instead of toggled
OrPixelMask(px) == PixelMask
\* px ^ 0xFFFFFF: the low 24 bits are complemented
XorPixelMask(px) == PixelMask - px

\* fault model: the pixels are not reset
clear_screen_keep(st) ==
    IF st.screen_clean THEN st
    ELSE [st EXCEPT !.screen_clean = TRUE, !.screen_dirty = TRUE]
\* clear_screen
clear_screen(st) ==
    IF st.screen_clean THEN st
    ELSE [st EXCEPT !.screen_buf = <<>>, !.screen_clean = TRUE, !.screen_dirty = TRUE]

\* fault model: a pixel that was turned on counts as a collision
RECURSIVE xor_line_from_inverted(_, _, _, _, _, _)
xor_line_from_inverted(buf, unset, x, y, bits, xo) ==
    IF xo >= 8 \/ x + xo > 63 THEN [buf |-> buf, unset |-> unset]
    ELSE LET idx == y * 64 + (x + xo)
         IN  IF Bit(bits, 7 - xo) # 0
             THEN LET nb == write_px(buf, idx, XorPixelMask(read_px(buf, idx)))
                  IN  xor_line_from_inverted(nb, unset \/ read_px(nb, idx) = PixelOn,
                                             x, y, bits, xo + 1)
             ELSE xor_line_from_inverted(buf, unset, x, y, bits, xo + 1)
\* the body of screen_xor_line's loop, from column offset xo on
RECURSIVE xor_line_from(_, _, _, _, _, _)
xor_line_from(buf, unset, x, y, bits, xo) ==
    IF xo >= 8 \/ x + xo > 63 THEN [buf |-> buf, unset |-> unset]
    ELSE LET idx == y * 64 + (x + xo)
         IN  IF Bit(bits, 7 - xo) # 0
             THEN LET nb == write_px(buf, idx, XorPixelMask(read_px(buf, idx)))
                  IN  xor_line_from(nb, unset \/ read_px(nb, idx) # PixelOn, x, y, bits, xo + 1)
             ELSE xor_line_from(buf, unset, x, y, bits, xo + 1)

\* screen_xor_line: the machine after it and the flag it returns
screen_xor_line(st, x, y, bits) ==
    IF bits = 0 THEN [st |-> st, unset |-> FALSE]
    ELSE LET r == xor_line_from(st.screen_buf, FALSE, x % 64, y % 32, bits, 0)
         IN  [st |-> [st EXCEPT !.screen_clean = FALSE, !.screen_dirty = TRUE,
                                !.screen_buf = r.buf],
              unset |-> r.unset]

\* get_key_status
get_key_status(k) == FALSE

\* get_hex_char_addr
get_hex_char_addr(ch) == ch * GlyphSize

\* ------------------------------------------------------------------ IL execution engine

AnyTag == {"Bool", "Addr", "Byte"}

Top(s, k) == s[Len(s) - k + 1]
PopN(s, n) == SubSeq(s, 1, Len(s) - n)

\* The panic of a run of `stack.pop().unwrap()` each followed by its tag match,
\* "" when every pop finds a value of an allowed tag.
RECURSIVE PopErr(_, _)
PopErr(s, tags) ==
    IF tags = <<>> THEN ""
    ELSE IF s = <<>> THEN "unwrap_none"
    ELSE IF Top(s, 1).tag \notin Head(tags) THEN "unreachable"
    ELSE PopErr(PopN(s, 1), Tail(tags))

Fail(st, e) == [st EXCEPT !.err = e]
\* pops n values, pushes the sequence out, returns false
Replace(st, n, out) == [st EXCEPT !.v = PopN(@, n) \o out, !.ret = FALSE]

ExecWriteScreen(st) ==
    LET e == PopErr(st.v, <<{"Byte"}, {"Byte"}, {"Byte"}>>)
    IN  IF e # "" THEN Fail(st, e)
        ELSE LET n == Top(st.v, 1).val
                 y == Top(st.v, 2).val
                 x == Top(st.v, 3).val
                 r == screen_xor_line(st, x % 64, y % 32, n)
             IN  Replace(r.st, 3, <<Bool(r.unset)>>)

ExecKeyPressed(st) ==
    LET e == PopErr(st.v, <<{"Byte"}>>)
    IN  IF e # "" THEN Fail(st, e)
        ELSE Replace(st, 1, <<Bool(get_key_status(Top(st.v, 1).val))>>)

ExecHexCharAddr(st) ==
    LET e == PopErr(st.v, <<{"Byte"}>>)
    IN  IF e # "" THEN Fail(st, e)
        ELSE IF ~(Top(st.v, 1).val < 16) THEN Fail(st, "assert_hex_digit")
        ELSE Replace(st, 1, <<Addr(get_hex_char_addr(Top(st.v, 1).val))>>)

ExecRegRead(st, il) ==
    IF il.r # "Generic" THEN Fail(st, "unimplemented")
    ELSE Replace(st, 0, <<Byte(st.reg[il.n])>>)

ExecRegWrite(st, il) ==
    IF il.r # "Generic" THEN Fail(st, "unimplemented")
    ELSE LET e == PopErr(st.v, <<{"Byte", "Bool"}>>)
         IN  IF e # "" THEN Fail(st, e)
             ELSE Replace([st EXCEPT !.reg[il.n] = Top(st.v, 1).val], 1, <<>>)

ExecMemRead(st) ==
    LET e == PopErr(st.v, <<{"Addr"}>>)
    IN  IF e # "" THEN Fail(st, e)
        ELSE Replace(st, 1, <<Byte(read_mem(st.mem, Top(st.v, 1).val % 4096))>>)

ExecMemWrite(st) ==
    LET e == PopErr(st.v, <<{"Byte"}, {"Addr"}>>)
    IN  IF e # "" THEN Fail(st, e)
        ELSE LET val == Top(st.v, 1).val
                 a == Top(st.v, 2).val % 4096
             IN  Replace([st EXCEPT !.mem = write_mem(@, a, val),
                                    !.wr = @ \cup {a % MemSize}], 2, <<>>)

ExecGetI(st) == Replace(st, 0, <<Addr(st.i)>>)

ExecSetI(st) ==
    LET e == PopErr(st.v, <<{"Addr"}>>)
    IN  IF e # "" THEN Fail(st, e)
        ELSE Replace([st EXCEPT !.i = Top(st.v, 1).val % 4096], 1, <<>>)

ExecSetPC(st) ==
    LET e == PopErr(st.v, <<{"Addr"}>>)
    IN  IF e # "" THEN Fail(st, e)
        ELSE [st EXCEPT !.pc = Top(st.v, 1).val % 4096, !.v = PopN(@, 1), !.ret = TRUE]

\* fault model: a taken skip is not reported as a redirect
ExecCondSkipPCNoFlag(st) ==
    LET e == PopErr(st.v, <<{"Bool"}>>)
    IN  IF e # "" THEN Fail(st, e)
        ELSE LET b == Top(st.v, 1).val = 1
             IN  IF b /\ st.pc + 4 > 65535 /\ st.oc THEN Fail(st, "overflow")
                 ELSE [st EXCEPT !.pc = IF b THEN (st.pc + 4) % 65536 ELSE @,
                                 !.v = PopN(@, 1), !.ret = FALSE]
ExecCondSkipPC(st) ==
    LET e == PopErr(st.v, <<{"Bool"}>>)
    IN  IF e # "" THEN Fail(st, e)
        ELSE LET b == Top(st.v, 1).val = 1
             IN  IF b /\ st.pc + 4 > 65535 /\ st.oc THEN Fail(st, "overflow")
                 ELSE [st EXCEPT !.pc = IF b THEN (st.pc + 4) % 65536 ELSE @,
                                 !.v = PopN(@, 1), !.ret = b]

ExecSwap2(st) ==
    IF Len(st.v) < 2
    THEN Fail(st, IF st.oc THEN "subtract_overflow" ELSE "index_out_of_bounds")
    ELSE Replace(st, 2, <<Top(st.v, 1), Top(st.v, 2)>>)

ExecPopIgnore(st) ==
    LET e == PopErr(st.v, <<AnyTag>>)
    IN  IF e # "" THEN Fail(st, e) ELSE Replace(st, 1, <<>>)

ExecEqual(st) ==
    LET e == PopErr(st.v, <<AnyTag, AnyTag>>)
    IN  IF e # "" THEN Fail(st, e)
        ELSE IF Top(st.v, 1).tag # "Byte" \/ Top(st.v, 2).tag # "Byte"
            THEN Fail(st, "unimplemented")
        ELSE Replace(st, 2, <<Bool(Top(st.v, 1).val = Top(st.v, 2).val)>>)

ExecBoolNot(st) ==
    LET e == PopErr(st.v, <<{"Bool"}>>)
    IN  IF e # "" THEN Fail(st, e)
        ELSE Replace(st, 1, <<Bool(~(Top(st.v, 1).val = 1))>>)

ExecBoolOr(st) ==
    LET e == PopErr(st.v, <<{"Bool"}, {"Bool"}>>)
    IN  IF e # "" THEN Fail(st, e)
        ELSE Replace(st, 2, <<Bool(Top(st.v, 1).val = 1 \/ Top(st.v, 2).val = 1)>>)

ExecSelect(st) ==
    LET e == PopErr(st.v, <<{"Bool"}, AnyTag, AnyTag>>)
    IN  IF e # "" THEN Fail(st, e)
        ELSE LET s == Top(st.v, 1).val = 1
                 b == Top(st.v, 2)
                 a == Top(st.v, 3)
             IN  IF a.tag # "Byte" \/ b.tag # "Byte" THEN Fail(st, "unimplemented")
                 ELSE Replace(st, 3, <<IF s THEN a ELSE b>>)

ExecAdd(st) ==
    LET e == PopErr(st.v, <<AnyTag, AnyTag>>)
    IN  IF e # "" THEN Fail(st, e)
        ELSE LET a == Top(st.v, 1)
                 b == Top(st.v, 2)
             IN  IF a.tag # "Byte" \/ b.tag # "Byte" THEN Fail(st, "unimplemented")
                 ELSE IF a.val + b.val > 255 /\ st.oc THEN Fail(st, "overflow")
                 ELSE Replace(st, 2, <<Byte((a.val + b.val) % 256)>>)

ExecAddOv(st) ==
    LET e == PopErr(st.v, <<AnyTag, AnyTag>>)
    IN  IF e # "" THEN Fail(st, e)
        ELSE LET a == Top(st.v, 1)
                 b == Top(st.v, 2)
             IN  IF a.tag # "Byte" \/ b.tag # "Byte" THEN Fail(st, "unimplemented")
                 ELSE LET r == OverflowingAdd(a.val, b.val)
                      IN  Replace(st, 2, <<Byte(r.sum), Bool(r.ov)>>)

ExecBOr(st) ==
    LET e == PopErr(st.v, <<{"Byte"}, {"Byte"}>>)
    IN  IF e # "" THEN Fail(st, e)
        ELSE Replace(st, 2, <<Byte(BitOr8(Top(st.v, 1).val, Top(st.v, 2).val))>>)

ExecBAnd(st) ==
    LET e == PopErr(st.v, <<{"Byte"}, {"Byte"}>>)
    IN  IF e # "" THEN Fail(st, e)
        ELSE Replace(st, 2, <<Byte(BitAnd8(Top(st.v, 1).val, Top(st.v, 2).val))>>)

ExecBXor(st) ==
    LET e == PopErr(st.v, <<{"Byte"}, {"Byte"}>>)
    IN  IF e # "" THEN Fail(st, e)
        ELSE Replace(st, 2, <<Byte(BitXor8(Top(st.v, 1).val, Top(st.v, 2).val))>>)

\* fault model: quotient and remainder pushed in the wrong order
ExecDivMod10Swapped(st) ==
    LET e == PopErr(st.v, <<{"Byte"}>>)
    IN  IF e # "" THEN Fail(st, e)
        ELSE Replace(st, 1, <<Byte(Top(st.v, 1).val % 10), Byte(Top(st.v, 1).val \div 10)>>)
ExecDivMod10(st) ==
    LET e == PopErr(st.v, <<{"Byte"}>>)
    IN  IF e # "" THEN Fail(st, e)
        ELSE Replace(st, 1, <<Byte(Top(st.v, 1).val \div 10), Byte(Top(st.v, 1).val % 10)>>)

ExecNeg(st) ==
    LET e == PopErr(st.v, <<{"Byte"}>>)
    IN  IF e # "" THEN Fail(st, e)
        ELSE Replace(st, 1, <<Byte(WrappingNeg(Top(st.v, 1).val))>>)

ExecBShlOv(st) ==
    LET e == PopErr(st.v, <<{"Byte"}>>)
    IN  IF e # "" THEN Fail(st, e)
        ELSE LET x == Top(st.v, 1).val
             IN  Replace(st, 1, <<Byte((x * 2) % 256), Bool(Bit(x, 7) # 0)>>)

ExecBShrOv(st) ==
    LET e == PopErr(st.v, <<{"Byte"}>>)
    IN  IF e # "" THEN Fail(st, e)
        ELSE LET x == Top(st.v, 1).val
             IN  Replace(st, 1, <<Byte(x \div 2), Bool(Bit(x, 0) # 0)>>)

\* fault model: the sum stops at 0xFFF instead of wrapping
ExecAddOffsetSaturating(st) ==
    LET e == PopErr(st.v, <<{"Byte"}, {"Addr"}>>)
    IN  IF e # "" THEN Fail(st, e)
        ELSE LET x == Top(st.v, 1).val
                 a == Top(st.v, 2).val
             IN  Replace(st, 2, <<Addr(IF a + x > 4095 THEN 4095 ELSE a + x)>>)
ExecAddOffset(st) ==
    LET e == PopErr(st.v, <<{"Byte"}, {"Addr"}>>)
    IN  IF e # "" THEN Fail(st, e)
        ELSE LET x == Top(st.v, 1).val
                 a == Top(st.v, 2).val
             IN  IF a + x > 65535 /\ st.oc THEN Fail(st, "overflow")
                 ELSE Replace(st, 2, <<Addr(((a + x) % 65536) % 4096)>>)

\* IntermediateInst::execute: the state after the operation; st.ret is the value returned
execute(il, st) ==
    CASE il.op = "Illegal" -> Fail(st, "illegal")
      [] il.op = "ClearScreen" -> [clear_screen(st) EXCEPT !.ret = FALSE]
      [] il.op = "WriteScreen" -> ExecWriteScreen(st)
      [] il.op = "WaitForKeypress" -> Fail(st, "waiting_for_key")
      [] il.op = "KeyPressed" -> ExecKeyPressed(st)
      [] il.op = "HexCharAddr" -> ExecHexCharAddr(st)
      [] il.op = "RegRead" -> ExecRegRead(st, il)
      [] il.op = "RegWrite" -> ExecRegWrite(st, il)
      [] il.op = "MemRead" -> ExecMemRead(st)
      [] il.op = "MemWrite" -> ExecMemWrite(st)
      [] il.op = "GetI" -> ExecGetI(st)
      [] il.op = "SetI" -> ExecSetI(st)
      [] il.op = "SetPC" -> ExecSetPC(st)
      [] il.op = "CondSkipPC" -> ExecCondSkipPC(st)
      [] il.op = "PushImm" -> Replace(st, 0, <<Byte(il.n)>>)
      [] il.op = "PushImm16" -> Replace(st, 0, <<Addr(il.n)>>)
      [] il.op = "Swap2" -> ExecSwap2(st)
      [] il.op = "PopIgnore" -> ExecPopIgnore(st)
      [] il.op = "Rand" -> Fail(st, "unimplemented")
      [] il.op = "True" -> Replace(st, 0, <<Bool(TRUE)>>)
      [] il.op = "False" -> Replace(st, 0, <<Bool(FALSE)>>)
      [] il.op = "Equal" -> ExecEqual(st)
      [] il.op = "BoolNot" -> ExecBoolNot(st)
      [] il.op = "BoolOr" -> ExecBoolOr(st)
      [] il.op = "Select" -> ExecSelect(st)
      [] il.op = "Add" -> ExecAdd(st)
      [] il.op = "AddOv" -> ExecAddOv(st)
      [] il.op = "BOr" -> ExecBOr(st)
      [] il.op = "BAnd" -> ExecBAnd(st)
      [] il.op = "BXor" -> ExecBXor(st)
      [] il.op = "DivMod10" -> ExecDivMod10(st)
      [] il.op = "Neg" -> ExecNeg(st)
      [] il.op = "BShlOv" -> ExecBShlOv(st)
      [] il.op = "BShrOv" -> ExecBShrOv(st)
      [] il.op = "AddOffset" -> ExecAddOffset(st)
      [] OTHER -> Fail(st, "unimplemented")

\* ------------------------------------------------------------------ fetch-execute driver

\* `pc_flag |= il.execute(s, &mut v)`, s2 the state after the operation
note_flag(s2) == IF s2.err # "" THEN s2 ELSE [s2 EXCEPT !.pc_flag = @ \/ s2.ret]

\* the `for il in ...` loop of run_instruction over prog[lo..hi], stopping at the
\* first panic. The operations run in order; the range is split in halves only
\* to keep the nesting of the evaluation logarithmic in the length of the program.
RECURSIVE run_prog(_, _, _, _), run_rest(_, _, _, _)
run_prog(prog, lo, hi, st) ==
    IF lo > hi THEN st
    ELSE IF lo = hi THEN note_flag(execute(prog[lo], st))
    ELSE run_rest(prog, ((lo + hi) \div 2) + 1, hi,
                  run_prog(prog, lo, (lo + hi) \div 2, st))
run_rest(prog, lo, hi, s1) ==
    IF s1.err # "" THEN s1 ELSE run_prog(prog, lo, hi, s1)

\* the opcode run_instruction fetches: read_mem(get_pc()) << 8 | read_mem(get_pc() + 1),
\* the sum in u16. With overflow checks `get_pc() + 1` panics at PC = 0xFFFF and
\* no opcode is read: -1.
fetch(m, oc) ==
    IF oc /\ m.pc + 1 > 65535 THEN -1
    ELSE read_mem(m.mem, m.pc) * 256 + read_mem(m.mem, (m.pc + 1) % 65536)

Machine ==
    [mem |-> mem, reg |-> reg, i |-> i, pc |-> pc, stack |-> stack,
     screen_buf |-> screen_buf, screen_clean |-> screen_clean,
     screen_dirty |-> screen_dirty]

MachineOf(st) ==
    [mem |-> st.mem, reg |-> st.reg, i |-> st.i, pc |-> st.pc, stack |-> st.stack,
     screen_buf |-> st.screen_buf, screen_clean |-> st.screen_clean,
     screen_dirty |-> st.screen_dirty]

\* fault model: the driver advances the PC after every cycle
advance_pc_always(st) == [st EXCEPT !.pc = ((st.pc + 2) % 65536) % 4096]
\* the `if !pc_flag` of run_instruction: set_pc((get_pc() + 2) & 0xFFF), the sum
\* in u16 (a taken skip stores the PC unmasked, so it can exceed 0xFFF)
advance_pc(st) ==
    IF st.pc_flag THEN st ELSE [st EXCEPT !.pc = ((st.pc + 2) % 65536) % 4096]

\* the engine's view of machine m before the first IL operation
start(m, oc) ==
    [mem |-> m.mem, reg |-> m.reg, i |-> m.i, pc |-> m.pc, stack |-> m.stack,
     screen_buf |-> m.screen_buf, screen_clean |-> m.screen_clean,
     screen_dirty |-> m.screen_dirty,
     v |-> <<>>, ret |-> FALSE, pc_flag |-> FALSE, err |-> "", wr |-> {}, oc |-> oc]

\* a cycle that panics before any IL operation runs
stop(m, e) == [m |-> m, v |-> <<>>, wr |-> {}, status |-> e]

\* the end of run_instruction, st the state the loop left
finish(st) ==
    IF st.err # ""
    THEN [m |-> MachineOf(st), v |-> st.v, wr |-> st.wr, status |-> st.err]
    ELSE IF ~st.pc_flag /\ st.pc + 2 > 65535 /\ st.oc
    THEN [m |-> MachineOf(st), v |-> st.v, wr |-> st.wr, status |-> "overflow"]
    ELSE [m |-> MachineOf(advance_pc(st)), v |-> st.v, wr |-> st.wr,
          status |-> IF st.v = <<>> THEN "running" ELSE "assert_stack_empty"]

\* run_instruction once the opcode is decoded to d
run_decoded(m, oc, d) ==
    IF d.kind = "Panic" THEN stop(m, "assert_decode")
    ELSE IF d.kind = "None" THEN stop(m, "illegal_opcode")
    ELSE finish(run_prog(d.prog, 1, Len(d.prog), start(m, oc)))

\* run_instruction on machine m: the machine after it, the operand stack, the
\* addresses written and how the cycle ended
run_instruction(m, oc) ==
    IF fetch(m, oc) = -1 THEN stop(m, "overflow")
    ELSE run_decoded(m, oc, parse_instruction(fetch(m, oc)))

\* the rest of an iteration of ConcreteMachine::run's loop after run_instruction
\* returned r: a dirty screen is handed to the window and screen_dirty reset. A
\* cycle that panicked ends the process before that. (The timers the loop counts
\* down are read by no implemented operation.)
flush_screen(r) ==
    IF r.status = "running" THEN [r EXCEPT !.m.screen_dirty = FALSE] ELSE r

\* ------------------------------------------------------------------ ROM images

\* A ROM image: opcodes `head` from its first byte on, zero bytes up to memory
\* address `at`, opcodes `tail` from there on.
Rom(head, at, tail) == [head |-> head, at |-> at, tail |-> tail]
Plain(ops) == Rom(ops, RomBase + 2 * Len(ops), <<>>)

RomLen(rom) == (rom.at - RomBase) + 2 * Len(rom.tail)

OpByte(ops, k) ==
    IF k % 2 = 0 THEN ops[(k \div 2) + 1] \div 256 ELSE ops[(k \div 2) + 1] % 256

\* data[k], k from 0
RomByte(rom, k) ==
    IF k < 2 * Len(rom.head) THEN OpByte(rom.head, k)
    ELSE IF k >= rom.at - RomBase THEN OpByte(rom.tail, k - (rom.at - RomBase))
    ELSE 0

\* ConcreteMachine::new: memory is the font, then the ROM from 0x200 on
InitialMem(rom) ==
    LET byte(a) == IF a < Len(SYSTEM_FONT) THEN SYSTEM_FONT[a + 1]
                   ELSE RomByte(rom, a - RomBase)
        used == (0 .. Len(SYSTEM_FONT) - 1)
                \cup (RomBase .. RomBase + 2 * Len(rom.head) - 1)
                \cup (rom.at .. rom.at + 2 * Len(rom.tail) - 1)
    IN  [a \in {x \in used : byte(x) # 0} |-> byte(a)]

NoCycle == [op |-> -1, pre |-> <<>>, cleared |-> FALSE]

\* main's "REPLACE SLOPPY SHIFTS" pass over the 2-byte chunks of the ROM file
\* (chunks_exact_mut(2)): in a chunk 8x ?6 or 8x ?E the y nibble is replaced by x.
\* data[k] as main hands it to ConcreteMachine::new.
ReplaceSloppyShifts(rom, k) ==
    LET c == k - (k % 2)
    IN  IF /\ k % 2 = 1
           /\ c + 1 < RomLen(rom)
           /\ RomByte(rom, c) \div 16 = 8
           /\ RomByte(rom, c + 1) % 16 \in {6, 14}
        THEN (RomByte(rom, c) % 16) * 16 + (RomByte(rom, c + 1) % 16)
        ELSE RomByte(rom, k)

\* the memory ConcreteMachine::new builds from the data main passes for the file rom
InitialMemMain(rom) ==
    LET byte(a) == IF a < Len(SYSTEM_FONT) THEN SYSTEM_FONT[a + 1]
                   ELSE ReplaceSloppyShifts(rom, a - RomBase)
        used == (0 .. Len(SYSTEM_FONT) - 1)
                \cup (RomBase .. RomBase + 2 * Len(rom.head) - 1)
                \cup (rom.at .. rom.at + 2 * Len(rom.tail) - 1)
    IN  [a \in {x \in used : byte(x) # 0} |-> byte(a)]

\* the fields of ConcreteMachine::new around memory m
BootMem(m, oc) ==
    /\ mem = m
    /\ reg = [k \in 0..15 |-> 0]
    /\ i = 0
    /\ pc = RomBase
    /\ stack = <<>>
    /\ screen_buf = <<>>
    /\ screen_clean = TRUE
    /\ screen_dirty = FALSE
    /\ overflow_checks = oc
    /\ status = "running"
    /\ v = <<>>
    /\ wr = {}
    /\ last = NoCycle
    /\ last2 = NoCycle
    /\ saved = {}
    /\ cleared = FALSE

\* ConcreteMachine::new(rom), in a build with or without overflow checks; the ROM
\* has to fit the slice mem[0x200 .. rom.len() + 0x200]
Boot(rom, oc) ==
    /\ RomLen(rom) <= MemSize - RomBase
    /\ BootMem(InitialMem(rom), oc)

\* main on the ROM file rom: the shift rewrite, the length assertion, then
\* ConcreteMachine::new on the rewritten data
BootMain(rom, oc) ==
    /\ RomLen(rom) < MaxRomLen
    /\ BootMem(InitialMemMain(rom), oc)

\* ------------------------------------------------------------------ opcodes

Op(n1, n2, n3, n4) == n1 * 4096 + n2 * 256 + n3 * 16 + n4
OpK(n1, x, kk) == n1 * 4096 + x * 256 + kk
OpA(n1, nnn) == n1 * 4096 + nnn

N1(op) == (op \div 4096) % 16
N2(op) == (op \div 256) % 16
N3(op) == (op \div 16) % 16
N4(op) == op % 16
KK(op) == op % 256
NNN(op) == op % 4096

IsDraw(op) == N1(op) = 13
IsStore(op) == N1(op) = 15 /\ KK(op) = 85
IsLoad(op) == N1(op) = 15 /\ KK(op) = 101

\* the addresses b .. b+x, modulo the memory size
StoreRange(b, x) == {(b + k) % MemSize : k \in 0..x}

\* ------------------------------------------------------------------ next-state relation

\* one iteration of the loop of ConcreteMachine::run
RunIteration ==
    /\ status = "running"
    /\ \E op \in {fetch(Machine, overflow_checks)},
          r \in {flush_screen(run_instruction(Machine, overflow_checks))} :
        \E kept \in {{s \in saved : StoreRange(s.b, s.x) \cap r.wr = {}}} :
           /\ mem' = r.m.mem
           /\ reg' = r.m.reg
           /\ i' = r.m.i
           /\ pc' = r.m.pc
           /\ stack' = r.m.stack
           /\ screen_buf' = r.m.screen_buf
           /\ screen_clean' = r.m.screen_clean
           /\ screen_dirty' = r.m.screen_dirty
           /\ status' = r.status
           /\ v' = r.v
           /\ wr' = r.wr
           /\ last' = [op |-> op, pre |-> Machine, cleared |-> cleared]
           /\ last2' = last
           /\ saved' = IF IsStore(op) /\ r.status = "running"
                       THEN kept \cup {[x |-> N2(op), b |-> i, reg |-> reg]}
                       ELSE kept
           /\ cleared' = IF op = 224 /\ r.status = "running" THEN TRUE
                         ELSE IF IsDraw(op) THEN FALSE
                         ELSE cleared
    /\ UNCHANGED overflow_checks

Next == RunIteration

\* ------------------------------------------------------------------ test ROMs

\* byte values around the carries, the decimal digits' edges and the sign bit
ByteVals ==
    {c + d : c \in {0, 10, 100, 128, 200, 255}, d \in (0 - EdgeRadius) .. EdgeRadius}
    \cap (0 .. 255)

\* (x, y) of the register-register opcodes: distinct, equal, y the flag register
RegPairs == {<<0, 1>>, <<3, 3>>, <<14, 15>>, <<2, 0>>}

\* 6x aa; 6y bb; 8xy4
AddRoms ==
    {Plain(<<OpK(6, p[1], a), OpK(6, p[2], b), Op(8, p[1], p[2], 4)>>) :
        p \in RegPairs, a \in ByteVals, b \in ByteVals}

\* 6x aa; 3x kk, at the start of the ROM and, behind a jump, at its end: the skip
\* is fetched at 4086, at 4091 (PC + 4 = 0xFFF) and at 4092 (PC + 4 > 0xFFF)
SkipRoms ==
    {Plain(<<OpK(6, x, a), OpK(3, x, kk)>>) :
        x \in {0, 7, 15}, a \in ByteVals, kk \in ByteVals}
    \cup {Rom(<<OpA(1, at)>>, at, <<OpK(6, 4, a), OpK(3, 4, kk)>>) :
        at \in {4084, 4089, 4090}, a \in {0, 10}, kk \in {0, 10}}

\* 6x vv; A bbb; Fx33
BcdRoms ==
    {Plain(<<OpK(6, x, b), OpA(10, a), OpK(15, x, 51)>>) :
        x \in {0, 15}, b \in ByteVals, a \in {0, 768, 4094, 4095}}

\* 6k vv for the registers 0..n, register k holding seed + 85 k (mod 256)
RECURSIVE LoadRegs(_, _, _)
LoadRegs(k, n, seed) ==
    IF k > n THEN <<>>
    ELSE <<OpK(6, k, (seed + 85 * k) % 256)>> \o LoadRegs(k + 1, n, seed)

\* what runs between the store and the load: nothing, registers overwritten, a
\* BCD write on the last stored address, a BCD write just after the stored
\* addresses, a second store of a changed V0 at the same base
StoreGaps(b, x) ==
    { <<>>,
      <<OpK(6, 0, 77), OpK(6, x, 78)>>,
      <<OpA(10, (b + x) % MemSize), OpK(15, 0, 51)>>,
      <<OpA(10, (b + x + 1) % MemSize), OpK(15, 0, 51)>>,
      <<OpK(6, 0, 77), OpA(10, b), OpK(15, 0, 85)>> }

\* load registers; A b; Fx55; gap; A b2; Fx65
StoreRomsAt(b, x) ==
    {Plain(LoadRegs(0, x, seed) \o <<OpA(10, b), OpK(15, x, 85)>> \o gap
           \o <<OpA(10, b2), OpK(15, x, 101)>>) :
        seed \in {0, 255}, b2 \in {b, (b + 1) % MemSize}, gap \in StoreGaps(b, x)}

StoreRoms ==
    UNION {StoreRomsAt(b, x) : b \in {768, 4095}, x \in (0 .. MaxStoreReg) \cup {15}}

Init ==
    \E rom \in AddRoms \cup SkipRoms \cup BcdRoms, oc \in BOOLEAN : Boot(rom, oc)

Spec == Init /\ [][Next]_vars

InitStore == \E rom \in StoreRoms, oc \in BOOLEAN : Boot(rom, oc)

SpecStore == InitStore /\ [][Next]_vars

\* one opcode of every pattern the decoder accepts, on registers 1 and 2
SampleOps ==
    { 224, 238, OpA(1, 520), OpA(2, 520), OpK(3, 1, 10), OpK(4, 1, 10),
      Op(5, 1, 2, 0), OpK(6, 1, 10), OpK(7, 1, 255), Op(9, 1, 2, 0),
      OpA(10, 291), OpA(11, 291), OpK(12, 1, 255),
      OpK(14, 1, 158), OpK(14, 1, 161) }
    \cup {Op(8, 1, 2, n) : n \in {0, 1, 2, 3, 4, 5, 6, 7, 14}}
    \cup {Op(13, 1, 2, n) : n \in {0, 1, 5, 15}}
    \cup {OpK(15, 1, kk) : kk \in {7, 10, 21, 24, 30, 41, 51, 85, 101}}

\* 61 aa; 62 bb; A nnn; op
SampleRoms ==
    {Plain(<<OpK(6, 1, a), OpK(6, 2, b), OpA(10, n), op>>) :
        a \in ByteVals, b \in {0, 255}, n \in {0, 4095}, op \in SampleOps}

\* every 16-bit opcode as a one-instruction ROM, and the sample opcodes on
\* loaded registers
InitDecode ==
    \/ \E op \in 0 .. 65535, oc \in BOOLEAN : Boot(Plain(<<op>>), oc)
    \/ \E rom \in SampleRoms, oc \in BOOLEAN : Boot(rom, oc)

SpecDecode == InitDecode /\ [][Next]_vars

\* what runs before the draws under test: nothing, or glyph 0 drawn at the same place
DrawPreludes(x, y) == { <<>>, <<OpA(10, 0), Op(13, x, y, 5)>> }

\* sprite addresses: glyph 0, glyph 1, zero bytes, the last byte of memory
SpriteAddrs == {0, 5, 768, 4095}

\* 6x vx; 6y vy; prelude; then either A s; Dxyn; Dxyn
\* or A s; 00E0; Dxyn or 00E0; 61 01; A s; Dxyn
DrawRomsOn(x, y) ==
    {Plain(<<OpK(6, x, vx), OpK(6, y, vy)>> \o pre \o tst) :
        vx \in {0, 62, 63, 70}, vy \in {0, 31, 255}, pre \in DrawPreludes(x, y),
        tst \in UNION {
            { <<OpA(10, s), Op(13, x, y, n), Op(13, x, y, n)>>,
              <<OpA(10, s), 224, Op(13, x, y, n)>>,
              <<224, OpK(6, 0, 1), OpA(10, s), Op(13, x, y, n)>> } :
            s \in SpriteAddrs, n \in 0 .. MaxRows }}

DrawRoms == DrawRomsOn(1, 2) \cup DrawRomsOn(3, 3)

InitDraw == \E rom \in DrawRoms, oc \in BOOLEAN : Boot(rom, oc)

SpecDraw == InitDraw /\ [][Next]_vars

\* (x, y) of the shift opcodes: x in 0..14, y different from x, equal to x, the
\* flag register
ShiftPairs == {<<0, 1>>, <<3, 3>>, <<14, 15>>, <<2, 0>>}

\* ROM files run through main. 6x aa; 6y bb; then the shift 8xy6 or 8xyE, either
\* next in line (an even file offset, rewritten by main to y = x) or behind a
\* jump to the odd address 0x207 (it straddles two chunks and is not rewritten)
ShiftRoms ==
    {Plain(<<OpK(6, p[1], a), OpK(6, p[2], b), Op(8, p[1], p[2], n)>>) :
        p \in ShiftPairs, a \in ByteVals, b \in ByteVals, n \in {6, 14}}
    \cup {Rom(<<OpK(6, p[1], a), OpK(6, p[2], b), OpA(1, 519)>>, 519,
              <<Op(8, p[1], p[2], n)>>) :
        p \in ShiftPairs, a \in ByteVals, b \in ByteVals, n \in {6, 14}}

InitShift == \E rom \in ShiftRoms, oc \in BOOLEAN : BootMain(rom, oc)

SpecShift == InitShift /\ [][Next]_vars

\* 6x vv; Fx29, with values on both sides of the last hex digit
GlyphRoms ==
    {Plain(<<OpK(6, x, b), OpK(15, x, 41)>>) :
        x \in {0, 15}, b \in ByteVals \cup {15, 16, 31}}

\* 6F ff; 6x vv; 7x kk
AddImmRoms ==
    {Plain(<<OpK(6, 15, f), OpK(6, x, b), OpK(7, x, kk)>>) :
        f \in {0, 1, 7}, x \in {0, 14}, b \in ByteVals, kk \in ByteVals}

\* 6x aa; 6y bb; 8xy5 or 8xy7
SubRoms ==
    {Plain(<<OpK(6, p[1], a), OpK(6, p[2], b), Op(8, p[1], p[2], n)>>) :
        p \in RegPairs, a \in ByteVals, b \in ByteVals, n \in {5, 7}}

InitArith ==
    \E rom \in GlyphRoms \cup AddImmRoms \cup SubRoms, oc \in BOOLEAN : Boot(rom, oc)

SpecArith == InitArith /\ [][Next]_vars

\* the opcode under test of a flow ROM, fetched at 518: jumps (to itself, back to
\* the start of the ROM, to the last address), the six conditional skips, and
\* opcodes that leave the PC to the driver
FlowOps ==
    { OpA(1, 518), OpA(1, 512), OpA(1, 4095),
      OpK(3, 1, 10), OpK(4, 1, 10), Op(5, 1, 2, 0), Op(9, 1, 2, 0),
      OpK(14, 1, 158), OpK(14, 1, 161),
      224, OpK(6, 1, 7), OpK(7, 1, 1), Op(8, 1, 2, 1), OpA(10, 291), Op(13, 1, 2, 1),
      OpK(15, 1, 30), OpK(15, 1, 41), OpK(15, 1, 51), OpK(15, 1, 85), OpK(15, 1, 101) }

\* 61 aa; 62 bb; A nnn; op
FlowRoms ==
    {Plain(<<OpK(6, 1, a), OpK(6, 2, b), OpA(10, n), op>>) :
        a \in ByteVals, b \in {0, 10}, n \in {0, 3841, 4095}, op \in FlowOps}

\* the opcode a self-modifying ROM executes at the last word of memory, 0xFFE
EndOps == { OpK(6, 2, 7), OpK(3, 2, 10), OpK(4, 2, 10), OpA(1, 4094), OpK(15, 2, 30) }

\* 60 hi; 61 lo; 62 aa; A FFE; F1 55; 1 FFE: the ROM stores the opcode hi lo at
\* 0xFFE (no ROM file reaches that address) and jumps to it
EndRoms ==
    {Plain(<<OpK(6, 0, op \div 256), OpK(6, 1, op % 256), OpK(6, 2, a),
             OpA(10, 4094), OpK(15, 1, 85), OpA(1, 4094)>>) :
        op \in EndOps, a \in ByteVals}

InitFlow ==
    \E rom \in FlowRoms \cup EndRoms \cup SkipRoms, oc \in BOOLEAN : Boot(rom, oc)

SpecFlow == InitFlow /\ [][Next]_vars

\* ------------------------------------------------------------------ properties

\* the last cycle ran to the end of run_instruction
Completed == last.op # -1 /\ status = "running"

IsAddCarry(op) == N1(op) = 8 /\ N4(op) = 4
IsSkipEqImm(op) == N1(op) = 3
IsBcd(op) == N1(op) = 15 /\ KK(op) = 51

\* C1: one cycle of 8xy4 with x in 0..14 completes and leaves Vx = (a + b) mod 256
\* and VF = 1 if a + b >= 256, 0 otherwise, where a and b are the values Vx and Vy
\* held before the cycle.
C1_AddWithCarry ==
    (last.op # -1 /\ IsAddCarry(last.op) /\ N2(last.op) \in 0..14) =>
        /\ status = "running"
        /\ reg[N2(last.op)]
              = (last.pre.reg[N2(last.op)] + last.pre.reg[N3(last.op)]) % 256
        /\ reg[15]
              = IF last.pre.reg[N2(last.op)] + last.pre.reg[N3(last.op)] >= 256
                THEN 1 ELSE 0

\* an 8xy4 that carried out of exactly 256, with distinct x and y
C1_Witness ==
    /\ Completed /\ IsAddCarry(last.op) /\ N2(last.op) # N3(last.op)
    /\ last.pre.reg[N2(last.op)] + last.pre.reg[N3(last.op)] = 256
    /\ reg[15] = 1 /\ reg[N2(last.op)] = 0

\* C2: one cycle of 3xkk fetched at p with p + 4 <= 0xFFF completes with PC = p + 4
\* when Vx = kk and PC = p + 2 otherwise, and changes no register, no memory byte
\* and not the index register.
C2_SkipEqualImmediate ==
    (last.op # -1 /\ IsSkipEqImm(last.op) /\ last.pre.pc + 4 <= 4095) =>
        /\ status = "running"
        /\ pc = IF last.pre.reg[N2(last.op)] = KK(last.op)
                THEN last.pre.pc + 4 ELSE last.pre.pc + 2
        /\ reg = last.pre.reg
        /\ mem = last.pre.mem
        /\ i = last.pre.i

\* a 3xkk that skipped on a non-zero value
C2_Witness ==
    /\ Completed /\ IsSkipEqImm(last.op)
    /\ last.pre.reg[N2(last.op)] = KK(last.op) /\ KK(last.op) # 0
    /\ pc = last.pre.pc + 4

\* C3: one cycle of Fx33 with Vx = v and I = b completes with memory[b] = v div 100,
\* memory[(b+1) mod 4096] = (v div 10) mod 10, memory[(b+2) mod 4096] = v mod 10,
\* and I still equal to b.
C3_BcdStore ==
    (last.op # -1 /\ IsBcd(last.op)) =>
        /\ status = "running"
        /\ read_mem(mem, last.pre.i) = last.pre.reg[N2(last.op)] \div 100
        /\ read_mem(mem, (last.pre.i + 1) % 4096)
              = (last.pre.reg[N2(last.op)] \div 10) % 10
        /\ read_mem(mem, (last.pre.i + 2) % 4096) = last.pre.reg[N2(last.op)] % 10
        /\ i = last.pre.i

\* an Fx33 of 201 stored at the last address, wrapping to addresses 0 and 1
C3_Witness ==
    /\ Completed /\ IsBcd(last.op)
    /\ last.pre.reg[N2(last.op)] = 201 /\ last.pre.i = 4095
    /\ read_mem(mem, 4095) = 2 /\ read_mem(mem, 0) = 0 /\ read_mem(mem, 1) = 1

\* C4: when Fx65 completes with I = b at its start, and an earlier Fx55 with the same
\* x ran with I = b and no memory address b .. b+x (mod 4096) has been written
\* since, every register 0..x holds the value it held when that Fx55 ran.
C4_StoreLoadRoundTrip ==
    (Completed /\ IsLoad(last.op)) =>
        \A s \in saved :
            (s.x = N2(last.op) /\ s.b = last.pre.i) =>
                \A k \in 0 .. s.x : reg[k] = s.reg[k]

\* an Fx65 that restored registers overwritten since the Fx55, from a range
\* that wraps past the last memory address
C4_Witness ==
    /\ Completed /\ IsLoad(last.op) /\ N2(last.op) >= 1 /\ last.pre.i = 4095
    /\ \E s \in saved :
          /\ s.x = N2(last.op) /\ s.b = last.pre.i
          /\ last.pre.reg[0] # s.reg[0] /\ last.pre.reg[s.x] # s.reg[s.x]
          /\ s.reg[0] # s.reg[1]
          /\ \A k \in 0 .. s.x : reg[k] = s.reg[k]

\* the opcodes that match no pattern of the decoder
IsUnrecognised(op) ==
    \/ N1(op) = 0 /\ op \notin {224, 238}
    \/ N1(op) \in {5, 9} /\ N4(op) # 0
    \/ N1(op) = 8 /\ N4(op) \in {8, 9, 10, 11, 12, 13, 15}
    \/ N1(op) = 14 /\ KK(op) \notin {158, 161}
    \/ N1(op) = 15 /\ KK(op) \notin {7, 10, 21, 24, 30, 41, 51, 85, 101}

\* C5: a cycle that fetches an opcode matching no recognised pattern stops with
\* the illegal-opcode condition and has executed no IL operation: registers, memory,
\* index register, PC, call stack and display are as before the fetch.
C5_IllegalOpcodeStops ==
    (last.op # -1 /\ IsUnrecognised(last.op)) =>
        /\ status = "illegal_opcode"
        /\ Machine = last.pre
        /\ v = <<>> /\ wr = {}

\* the cycle that fetched 0x5001
C5_Witness ==
    /\ last.op = 20481 /\ status = "illegal_opcode"
    /\ pc = RomBase /\ Machine = last.pre

\* how a cycle ends when the operand stack is popped while empty (pop().unwrap(),
\* or Swap2 on fewer than two values) or is not empty at the final assertion
StackFaults ==
    {"unwrap_none", "subtract_overflow", "index_out_of_bounds", "assert_stack_empty"}

\* C6: no cycle on a decoded opcode pops from an empty operand stack, and the
\* assertion that the operand stack is empty at the end of the cycle never fails.
C6_OperandStackDiscipline ==
    (last.op # -1) =>
        /\ status \notin StackFaults
        /\ (status = "running" => v = <<>>)

\* a completed 16-row draw on loaded registers, the longest micro-program
C6_Witness ==
    /\ Completed /\ IsDraw(last.op) /\ N4(last.op) = 0 /\ v = <<>>
    /\ last.pre.reg[N2(last.op)] # 0 /\ reg[15] = 0 /\ screen_buf # <<>>

\* C7: decoding never aborts: every fetched opcode yields a micro-program or the
\* illegal-opcode signal.
C7_DecoderTotal == status # "assert_decode"

\* the number of rows Dxyn draws
Rows(op) == IF N4(op) = 0 THEN 16 ELSE N4(op)

\* the last two cycles were the same Dxyn, both completed, started with the same
\* Vx, Vy and I and read the same sprite bytes
SameDrawTwice ==
    /\ Completed /\ last2.op # -1
    /\ IsDraw(last.op) /\ last2.op = last.op
    /\ last.pre.reg[N2(last.op)] = last2.pre.reg[N2(last.op)]
    /\ last.pre.reg[N3(last.op)] = last2.pre.reg[N3(last.op)]
    /\ last.pre.i = last2.pre.i
    /\ \A k \in 0 .. Rows(last.op) - 1 :
          read_mem(last.pre.mem, last.pre.i + k) = read_mem(last2.pre.mem, last.pre.i + k)

\* the first of the two draws turned on a pixel that was off
FirstDrawSetAPixel ==
    \E idx \in 0 .. 2047 :
        /\ read_px(last2.pre.screen_buf, idx) = PixelOff
        /\ read_px(last.pre.screen_buf, idx) = PixelOn

\* C8: after the same Dxyn has run twice in succession on the same Vx, Vy, I and
\* sprite bytes, the display equals the display before the first draw.
C8_DrawTwiceRestoresDisplay ==
    SameDrawTwice => screen_buf = last2.pre.screen_buf

\* a 16-row sprite drawn twice over a display that already had pixels set, the
\* first draw having changed the display
C8_Witness ==
    /\ SameDrawTwice /\ N4(last.op) = 0
    /\ last2.pre.screen_buf # <<>>
    /\ last.pre.screen_buf # last2.pre.screen_buf
    /\ screen_buf = last2.pre.screen_buf

\* C9 as stated: the second of two identical draws always leaves VF = 1.
C9_SecondDrawAlwaysCollides ==
    SameDrawTwice => reg[15] = 1

\* C9, amended: the second of two identical draws leaves VF = 1 exactly when the
\* first draw turned on at least one pixel, and VF = 0 otherwise (a sprite of zero
\* bytes, a sprite whose set bits all fall right of column 63, or a sprite that
\* covers only pixels that were already set).
C9_SecondDrawCollidesIffFirstSet ==
    SameDrawTwice => reg[15] = IF FirstDrawSetAPixel THEN 1 ELSE 0

\* a second draw that reported a collision on a display that had pixels set
\* before the first draw
C9_Witness ==
    /\ SameDrawTwice /\ reg[15] = 1 /\ FirstDrawSetAPixel
    /\ last2.pre.screen_buf # <<>>

\* C10: the first Dxyn to complete after a 00E0 leaves VF = 0.
C10_NoCollisionAfterClear ==
    (Completed /\ IsDraw(last.op) /\ last.cleared) => reg[15] = 0

\* a draw that set pixels right after a 00E0 that erased a display with pixels set
C10_Witness ==
    /\ Completed /\ IsDraw(last.op) /\ last.cleared
    /\ screen_buf # <<>> /\ reg[15] = 0
    /\ last.pre.screen_buf = <<>>
    /\ last2.op = 224 /\ last2.pre.screen_buf # <<>>

IsCall(op) == N1(op) = 2
IsRet(op) == op = 238

\* C11: a cycle of 2nnn fetched at p completes with p pushed on the call stack
\* (depth one more, top = p) and PC = nnn, not advanced by the driver; a cycle of
\* 00EE on a non-empty call stack completes with the top popped into the PC.
C11_CallPushesReturnPops ==
    /\ (last.op # -1 /\ IsCall(last.op)) =>
          /\ status = "running"
          /\ stack = Append(last.pre.stack, last.pre.pc)
          /\ pc = NNN(last.op)
    /\ (last.op # -1 /\ IsRet(last.op) /\ last.pre.stack # <<>>) =>
          /\ status = "running"
          /\ pc = Top(last.pre.stack, 1)
          /\ stack = PopN(last.pre.stack, 1)

IsShr(op) == N1(op) = 8 /\ N4(op) = 6
IsShl(op) == N1(op) = 8 /\ N4(op) = 14

\* C12: one cycle of 8xy6 with x in 0..14 completes with Vx = a >> 1 and VF = the
\* lowest bit of a, and one cycle of 8xyE with Vx = (a << 1) mod 256 and VF = the
\* highest bit of a, where a is the value Vx held before the cycle, whatever Vy held.
C12_ShiftsIgnoreVy ==
    (last.op # -1 /\ (IsShr(last.op) \/ IsShl(last.op)) /\ N2(last.op) \in 0..14) =>
        /\ status = "running"
        /\ reg[N2(last.op)]
              = IF IsShr(last.op) THEN last.pre.reg[N2(last.op)] \div 2
                ELSE (last.pre.reg[N2(last.op)] * 2) % 256
        /\ reg[15]
              = IF IsShr(last.op) THEN last.pre.reg[N2(last.op)] % 2
                ELSE last.pre.reg[N2(last.op)] \div 128

IsGlyph(op) == N1(op) = 15 /\ KK(op) = 41

\* C13: one cycle of Fx29 completes, for every byte value Vx holds, and leaves the
\* index register at the glyph address of the digit Vx mod 16.
C13_GlyphAddressOfLowNibble ==
    (last.op # -1 /\ IsGlyph(last.op)) =>
        /\ status = "running"
        /\ i = get_hex_char_addr(last.pre.reg[N2(last.op)] % 16)

IsAddImm(op) == N1(op) = 7

\* C14: one cycle of 7xkk with x in 0..14 completes and leaves Vx = (v + kk) mod 256,
\* also when v + kk >= 256, and VF as it was.
C14_AddImmediateWraps ==
    (last.op # -1 /\ IsAddImm(last.op) /\ N2(last.op) \in 0..14) =>
        /\ status = "running"
        /\ reg[N2(last.op)] = (last.pre.reg[N2(last.op)] + KK(last.op)) % 256
        /\ reg[15] = last.pre.reg[15]

\* C15: one cycle of Fx55 or of Fx65 started with I = b completes with
\* I = (b + x + 1) mod 4096.
C15_IndexAfterBatch ==
    (last.op # -1 /\ (IsStore(last.op) \/ IsLoad(last.op))) =>
        /\ status = "running"
        /\ i = (last.pre.i + N2(last.op) + 1) % 4096

\* an FF65 started at the last address, after an FF55 that left I = 15: the index
\* register wrapped past 0xFFF both times
C15_Witness ==
    /\ Completed /\ last.op = OpK(15, 15, 101) /\ last.pre.i = 4095 /\ i = 15
    /\ \E s \in saved : s.x = 15 /\ s.b = 4095

IsJump(op) == N1(op) = 1

\* op decodes to a conditional skip whose CondSkipPC, run in machine state m,
\* pops true
SkipTaken(op, m) ==
    \/ N1(op) = 3 /\ m.reg[N2(op)] = KK(op)
    \/ N1(op) = 4 /\ m.reg[N2(op)] # KK(op)
    \/ N1(op) = 5 /\ N4(op) = 0 /\ m.reg[N2(op)] = m.reg[N3(op)]
    \/ N1(op) = 9 /\ N4(op) = 0 /\ m.reg[N2(op)] # m.reg[N3(op)]
    \/ N1(op) = 14 /\ KK(op) = 158 /\ get_key_status(m.reg[N2(op)])
    \/ N1(op) = 14 /\ KK(op) = 161 /\ ~get_key_status(m.reg[N2(op)])

\* no operation of the cycle of op, fetched in machine state m in a build with
\* (oc) or without overflow checks, returns true from execute: the fetch panics
\* (`get_pc() + 1` overflows with checks), or no SetPC runs (1nnn is the one
\* opcode that decodes to it; Call, Ret and OffsetPC panic before they return)
\* and no CondSkipPC returns true (one that pops true panics before it returns
\* when `get_pc() + 4` overflows with checks)
NoRedirect(op, m, oc) ==
    \/ oc /\ m.pc + 1 > 65535
    \/ /\ ~IsJump(op)
       /\ ~(SkipTaken(op, m) /\ ~(oc /\ m.pc + 4 > 65535))

\* C16: a completed cycle fetched at p leaves PC = nnn after 1nnn (also when
\* nnn = p), and PC = (p + 2) mod 4096 after an opcode that holds no PC-setting
\* operation and takes no conditional skip.
C16_DriverAdvancesUnlessRedirected ==
    Completed =>
        /\ IsJump(last.op) => pc = NNN(last.op)
        /\ NoRedirect(last.op, last.pre, overflow_checks) => pc = (last.pre.pc + 2) % 4096

\* a jump to its own address, after a cycle the driver advanced by 2
C16_Witness ==
    /\ Completed /\ IsJump(last.op) /\ NNN(last.op) = last.pre.pc /\ pc = last.pre.pc
    /\ last2.op # -1 /\ NoRedirect(last2.op, last2.pre, overflow_checks)
    /\ last.pre.pc = last2.pre.pc + 2

\* C17: after any sequence of completed cycles the PC is in 0..0xFFF.
C17_PcWithin12Bits ==
    status = "running" => pc \in 0 .. 4095

IsAddIndex(op) == N1(op) = 15 /\ KK(op) = 30

\* C18: the index register is in 0..0xFFF in every state, and one cycle of Fx1E
\* completes with I = (I + Vx) mod 4096.
C18_IndexWithin12Bits ==
    /\ i \in 0 .. 4095
    /\ (last.op # -1 /\ IsAddIndex(last.op)) =>
          /\ status = "running"
          /\ i = (last.pre.i + last.pre.reg[N2(last.op)]) % 4096

\* an Fx1E that added 255 to I = 0xFFF and wrapped to 254
C18_Witness ==
    /\ Completed /\ IsAddIndex(last.op)
    /\ last.pre.i = 4095 /\ last.pre.reg[N2(last.op)] = 255 /\ i = 254

IsSub(op) == N1(op) = 8 /\ N4(op) = 5
IsSubN(op) == N1(op) = 8 /\ N4(op) = 7

\* C19: one cycle of 8xy5 with x in 0..14 completes with Vx = (a - b) mod 256 and
\* VF = 1 exactly when a >= b; one cycle of 8xy7 with Vx = (b - a) mod 256 and
\* VF = 1 exactly when b >= a, where a and b are the values Vx and Vy held before
\* the cycle, a subtracted value of 0 included.
C19_SubtractNoBorrowFlag ==
    /\ (last.op # -1 /\ IsSub(last.op) /\ N2(last.op) \in 0..14) =>
          /\ status = "running"
          /\ reg[N2(last.op)]
                = (256 + last.pre.reg[N2(last.op)] - last.pre.reg[N3(last.op)]) % 256
          /\ reg[15]
                = IF last.pre.reg[N2(last.op)] >= last.pre.reg[N3(last.op)] THEN 1 ELSE 0
    /\ (last.op # -1 /\ IsSubN(last.op) /\ N2(last.op) \in 0..14) =>
          /\ status = "running"
          /\ reg[N2(last.op)]
                = (256 + last.pre.reg[N3(last.op)] - last.pre.reg[N2(last.op)]) % 256
          /\ reg[15]
                = IF last.pre.reg[N3(last.op)] >= last.pre.reg[N2(last.op)] THEN 1 ELSE 0

\* C20: every cycle on an opcode the decoder returns a micro-program for runs to
\* completion: no IL operation the decoder emits aborts the process.
C20_AcceptedOpcodesRunToCompletion ==
    (last.op # -1 /\ parse_instruction(last.op).kind = "Some") => status = "running"

====
